---- MODULE Spec2Model ----
(***************************************************************************)
(* Model of plaza_radio_tui: the audio delivery pipeline (player.rs), the  *)
(* playback control facade (player.rs) and the metadata poller and         *)
(* normalizer (metadata.rs, main.rs).                                      *)
(***************************************************************************)
EXTENDS Integers, Sequences, FiniteSets, TLC

(***************************************************************************)
(* Bounds of the model and constants of the program.                       *)
(***************************************************************************)

\* bytes of decoder output the model lets the producer read in total
MaxBytes == 14

\* largest byte count one read returns (stands for the 8192-byte buffer)
MaxRead == 4

\* calls of PlayerControl::stop each caller makes
MaxStopCalls == 2

\* mpsc::sync_channel::<Vec<i16>>(10)
ChannelDepth == 10

\* s as f32 / 32768.0
Scale == 32768

VARIABLES
    \* ---- audio pipeline (player.rs) ----
    pos,        \* bytes of the decoder's output consumed so far
    prodPc,     \* producer thread: "read", "send", "done"
    prodExit,   \* why the producer thread ended: "", "eof", "read_err", "send_err"
    samples,    \* the chunk the producer built from its last read
    chan,       \* chunks queued in the bounded channel
    txAlive,    \* the SyncSender has not been dropped
    rxAlive,    \* the Receiver (inside FfmpegSource) has not been dropped
    buffer,     \* FfmpegSource.buffer
    srcPc,      \* FfmpegSource::next: "idle", "pop", "try_recv", "recv_timeout"
    ret,        \* what the last completed call of next returned
    sent,       \* history: every sample accepted by the channel, in order
    delivered,  \* history: every value next returned as Some, in order
    \* ---- playback control (player.rs) ----
    child,      \* PlayerControl.child: "Some" or "None" (Option<Child>)
    childLock,  \* its mutex: "free", "poisoned" or the holder
    sinkLock,   \* the mutex of PlayerControl.sink: "free", "poisoned" or the holder
    sinkStopped,\* Sink::stop was called
    paused,     \* the sink's paused flag
    volume,     \* the sink's volume, in hundredths
    proc,       \* the decoder process: "running", "exited", "killed", "reaped"
    kills,      \* history: calls of Child::kill
    waits,      \* history: calls of Child::wait
    ctlPc,      \* per caller: where it is inside PlayerControl::stop
    holds,      \* per caller: it owns the Child it took out of the handle
    stopCalls,  \* history, per caller: calls of stop begun
    stopsDone,  \* history: calls of stop that returned
    handoffPc,  \* the hand-off thread: "lock", "append", "done"
    curOp,      \* per caller: the method of the sink it is inside, and its argument
    \* ---- metadata poller (metadata.rs, main.rs) ----
    metaPc,     \* metadata_loop: "tick", "primary", "fallback" ("returned": it ended)
    fbIdx,      \* the fallback url the for loop is at (1..3)
    published,  \* the value held by the watch channel
    reqs,       \* history: the candidates requested in this cycle (0 = primary)
    outs,       \* history: how each request of this cycle went
    pubs,       \* history: records sent in this cycle
    yielded,    \* history: some candidate of this cycle yielded a record
    lastParsed, \* history: the record the last request yielded, if any
    cycleStart, \* history: the published value when this cycle began
    lastSent,   \* history: the record most recently passed to tx.send
    unread,     \* history: sends since the subscriber's last read (saturating)
    \* ---- the UI loop (ui.rs) ----
    uiNp,       \* the record the loop read at the top of its last pass, if any
    skipped,    \* history: the value of unread when that read was made
    uiPc,       \* run_ui: "loop", "returned_ok", "returned_err"
    savedVolume,\* UIState.saved_volume, an Option, in hundredths
    shown,      \* what the last draw displayed: <<>> or <<[paused, volume]>>
    muteFrom,   \* the sink's volume before each of the latest mute presses in a
                \* row (the last two of them), <<>> after any other key
    \* ---- the Normalizer's functions on their own ----
    parseFn,    \* the function applied ("" before)
    parseIn,    \* its input, a JSON value
    parseOut,   \* its result, an Option<NowPlaying>
    \* ---- the producer's byte-pair loop on its own ----
    decBuf,     \* buf: what the array holds, stale bytes after the first decN
    decN,       \* n: the count read returned
    decOut      \* the chunk built, an Option (<<>> before the loop has run)

audioVars == <<pos, prodPc, prodExit, samples, chan, txAlive, rxAlive, buffer, srcPc,
               ret, sent, delivered>>

ctlVars == <<child, childLock, sinkLock, sinkStopped, paused, volume, proc, kills,
             waits, ctlPc, holds, stopCalls, stopsDone, handoffPc>>

metaVars == <<metaPc, fbIdx, published, reqs, outs, pubs, yielded, lastParsed,
              cycleStart, lastSent, unread>>

uiVars == <<uiNp, skipped, uiPc, savedVolume, shown, muteFrom>>

opVars == <<curOp>>

\* the UI loop's state apart from its copy of the record
uiCtlVars == <<uiPc, savedVolume, shown>>

parseVars == <<parseFn, parseIn, parseOut>>

decVars == <<decBuf, decN, decOut>>

vars == <<audioVars, ctlVars, metaVars, parseVars, uiVars, decVars, opVars>>

\* what an action of the audio pipeline leaves alone
notAudio == <<ctlVars, metaVars, parseVars, uiVars, decVars, opVars>>

\* what an action of the playback control leaves alone
notCtl == <<audioVars, metaVars, parseVars, uiVars, decVars, opVars>>

\* what an action of the metadata poller leaves alone
notMeta == <<audioVars, ctlVars, parseVars, uiVars, decVars, opVars>>

\* what an application of a Normalizer function leaves alone
notParse == <<audioVars, ctlVars, metaVars, uiVars, decVars, opVars>>

(***************************************************************************)
(* Sequences helpers.                                                      *)
(***************************************************************************)

RECURSIVE Flatten(_)
Flatten(ss) == IF ss = <<>> THEN <<>> ELSE Head(ss) \o Flatten(Tail(ss))

IsPrefix(s, t) == Len(s) <= Len(t) /\ SubSeq(t, 1, Len(s)) = s

(***************************************************************************)
(* The decoder's standard output: a byte stream.  Byte k (from 0) of the   *)
(* stream; read in aligned pairs the pattern gives the samples -10113, 0,  *)
(* -1, -32768, 1, 32767, and other samples once an odd read shifts it.     *)
(***************************************************************************)

StreamPattern == <<127, 216, 0, 0, 255, 255, 0, 128, 1, 0, 255, 127>>

StreamByte(k) == StreamPattern[(k % Len(StreamPattern)) + 1]

\* the n bytes a read places in buf[0..n)
ReadBlock(p, n) == [i \in 1..n |-> StreamByte(p + i - 1)]

(***************************************************************************)
(* Producer thread: byte pairs to samples.                                 *)
(***************************************************************************)

\* faulty variant: the first byte of a pair is taken as the high one
ToI16BigEndian(lo, hi) ==
    LET u == ((lo * 256) % 65536) + hi
    IN  IF u >= 32768 THEN u - 65536 ELSE u

\* ((hi << 8) | lo) as i16, with lo and hi widened from u8 to u16
ToI16(lo, hi) ==
    LET u == ((hi * 256) % 65536) + lo
    IN  IF u >= 32768 THEN u - 65536 ELSE u

\* the while loop: i = 0, 2, 4, ... as long as i + 1 < n  (buf is 1-based here)
RECURSIVE DecodeFrom(_, _, _)
DecodeFrom(buf, n, i) ==
    IF i + 1 < n
    THEN <<ToI16(buf[i + 1], buf[i + 2])>> \o DecodeFrom(buf, n, i + 2)
    ELSE <<>>

Decode(buf, n) == DecodeFrom(buf, n, 0)

\* the loop applied to one block (checked under SpecDecode, whose initial
\* states draw the array and n): the array is DecCap bytes long, of which
\* the first n were written by this read
DecCap == 4

ByteChoices == {0, 1, 127, 128, 255}

ApplyDecode ==
    /\ decOut = <<>>
    /\ decOut' = <<Decode(decBuf, decN)>>
    /\ UNCHANGED <<decBuf, decN>>
    /\ UNCHANGED <<audioVars, ctlVars, metaVars, parseVars, uiVars, opVars>>

InitDecIdle ==
    /\ decBuf = <<>>
    /\ decN = 0
    /\ decOut = <<>>

InitDecInput ==
    /\ decBuf \in [1..DecCap -> ByteChoices]
    /\ decN \in 0..DecCap
    /\ decOut = <<>>

\* Ok(n), n > 0: build the chunk, go on to tx.send(samples)
ProducerRead ==
    /\ prodPc = "read"
    /\ \E n \in 1..MaxRead :
        /\ pos + n <= MaxBytes
        /\ samples' = Decode(ReadBlock(pos, n), n)
        /\ pos' = pos + n
    /\ prodPc' = "send"
    /\ UNCHANGED notAudio
    /\ UNCHANGED <<prodExit, chan, txAlive, rxAlive, buffer, srcPc, ret, sent, delivered>>

\* Vec::with_capacity(n / 2): the most samples one read of the whole array
\* gives
ChunkCap == MaxRead \div 2

\* Ok(0) => break: the thread ends and drops tx
ProducerEof ==
    /\ prodPc = "read"
    /\ prodPc' = "done"
    /\ prodExit' = "eof"
    /\ txAlive' = FALSE
    /\ UNCHANGED notAudio
    /\ UNCHANGED <<pos, samples, chan, rxAlive, buffer, srcPc, ret, sent, delivered>>

\* Err(_) => break
ProducerReadErr ==
    /\ prodPc = "read"
    /\ prodPc' = "done"
    /\ prodExit' = "read_err"
    /\ txAlive' = FALSE
    /\ UNCHANGED notAudio
    /\ UNCHANGED <<pos, samples, chan, rxAlive, buffer, srcPc, ret, sent, delivered>>

\* faulty variant: an unbounded channel, send never waits
ProducerSendUnbounded ==
    /\ prodPc = "send"
    /\ rxAlive
    /\ chan' = Append(chan, samples)
    /\ sent' = sent \o samples
    /\ samples' = <<>>
    /\ prodPc' = "read"
    /\ UNCHANGED notAudio
    /\ UNCHANGED <<pos, prodExit, txAlive, rxAlive, buffer, srcPc, ret, delivered>>

\* faulty variant: the thread ends after its first successful send
ProducerSendOnce ==
    /\ prodPc = "send"
    /\ rxAlive
    /\ Len(chan) < ChannelDepth
    /\ chan' = Append(chan, samples)
    /\ sent' = sent \o samples
    /\ samples' = <<>>
    /\ prodPc' = "done"
    /\ prodExit' = "sent"
    /\ txAlive' = FALSE
    /\ UNCHANGED notAudio
    /\ UNCHANGED <<pos, rxAlive, buffer, srcPc, ret, delivered>>

\* tx.send(samples) with room in the channel: the chunk is queued
ProducerSendOk ==
    /\ prodPc = "send"
    /\ rxAlive
    /\ Len(chan) < ChannelDepth
    /\ chan' = Append(chan, samples)
    /\ sent' = sent \o samples
    /\ samples' = <<>>
    /\ prodPc' = "read"
    /\ UNCHANGED notAudio
    /\ UNCHANGED <<pos, prodExit, txAlive, rxAlive, buffer, srcPc, ret, delivered>>

\* tx.send(samples).is_err(): the receiver is gone => break
ProducerSendErr ==
    /\ prodPc = "send"
    /\ ~rxAlive
    /\ samples' = <<>>
    /\ prodPc' = "done"
    /\ prodExit' = "send_err"
    /\ txAlive' = FALSE
    /\ UNCHANGED notAudio
    /\ UNCHANGED <<pos, chan, rxAlive, buffer, srcPc, ret, sent, delivered>>

(***************************************************************************)
(* Streaming Audio Source: FfmpegSource::next.                             *)
(***************************************************************************)

NoReturn == [kind |-> "init", num |-> 0, den |-> Scale]
RetNone  == [kind |-> "none", num |-> 0, den |-> Scale]
\* Some(s as f32 / 32768.0): the quotient, kept as numerator and denominator
ToF32(s) == [kind |-> "sample", num |-> s, den |-> Scale]
\* Some(0.0)
Silence  == [kind |-> "silence", num |-> 0, den |-> Scale]

\* faulty variant: the refill pushes at the front, which reverses the chunk
RECURSIVE PushAllFront(_, _)
PushAllFront(buf, chunk) ==
    IF chunk = <<>> THEN buf ELSE PushAllFront(<<Head(chunk)>> \o buf, Tail(chunk))

\* for v in chunk { self.buffer.push_back(v) }
RECURSIVE PushAll(_, _)
PushAll(buf, chunk) ==
    IF chunk = <<>> THEN buf ELSE PushAll(Append(buf, Head(chunk)), Tail(chunk))

\* the sink asks for the next sample
SrcCall ==
    /\ srcPc = "idle"
    /\ rxAlive
    /\ srcPc' = "pop"
    /\ UNCHANGED notAudio
    /\ UNCHANGED <<pos, prodPc, prodExit, samples, chan, txAlive, rxAlive, buffer, ret,
                   sent, delivered>>

\* if let Some(s) = self.buffer.pop_front() { return Some(..) }
SrcPop ==
    /\ srcPc = "pop"
    /\ IF buffer # <<>>
       THEN /\ ret' = ToF32(Head(buffer))
            /\ delivered' = Append(delivered, ToF32(Head(buffer)))
            /\ buffer' = Tail(buffer)
            /\ srcPc' = "idle"
       ELSE /\ srcPc' = "try_recv"
            /\ UNCHANGED <<ret, delivered, buffer>>
    /\ UNCHANGED notAudio
    /\ UNCHANGED <<pos, prodPc, prodExit, samples, chan, txAlive, rxAlive, sent>>

\* faulty variant: the refill takes every queued chunk at once
SrcTryRecvAll ==
    /\ srcPc = "try_recv"
    /\ chan # <<>>
    /\ buffer' = PushAll(buffer, Flatten(chan))
    /\ chan' = <<>>
    /\ srcPc' = "pop"
    /\ UNCHANGED notAudio
    /\ UNCHANGED <<pos, prodPc, prodExit, samples, txAlive, rxAlive, ret, sent, delivered>>

\* self.rx.try_recv() => Ok(chunk)
SrcTryRecvOk ==
    /\ srcPc = "try_recv"
    /\ chan # <<>>
    /\ buffer' = PushAll(buffer, Head(chan))
    /\ chan' = Tail(chan)
    /\ srcPc' = "pop"
    /\ UNCHANGED notAudio
    /\ UNCHANGED <<pos, prodPc, prodExit, samples, txAlive, rxAlive, ret, sent, delivered>>

\* self.rx.try_recv() => Err(Empty)
SrcTryRecvEmpty ==
    /\ srcPc = "try_recv"
    /\ chan = <<>>
    /\ txAlive
    /\ IF buffer = <<>>
       THEN /\ srcPc' = "recv_timeout"
            /\ UNCHANGED <<ret, delivered>>
       ELSE /\ ret' = Silence
            /\ delivered' = Append(delivered, Silence)
            /\ srcPc' = "idle"
    /\ UNCHANGED notAudio
    /\ UNCHANGED <<pos, prodPc, prodExit, samples, chan, txAlive, rxAlive, buffer, sent>>

\* faulty variant: the sender's end is reported while chunks are still queued
SrcTryRecvDisconnectedEarly ==
    /\ srcPc = "try_recv"
    /\ ~txAlive
    /\ ret' = RetNone
    /\ srcPc' = "idle"
    /\ UNCHANGED notAudio
    /\ UNCHANGED <<pos, prodPc, prodExit, samples, chan, txAlive, rxAlive, buffer, sent,
                   delivered>>

\* self.rx.try_recv() => Err(Disconnected)
SrcTryRecvDisconnected ==
    /\ srcPc = "try_recv"
    /\ chan = <<>>
    /\ ~txAlive
    /\ ret' = RetNone
    /\ srcPc' = "idle"
    /\ UNCHANGED notAudio
    /\ UNCHANGED <<pos, prodPc, prodExit, samples, chan, txAlive, rxAlive, buffer, sent,
                   delivered>>

\* self.rx.recv_timeout(100 ms) => Ok(chunk)
SrcRecvTimeoutOk ==
    /\ srcPc = "recv_timeout"
    /\ chan # <<>>
    /\ buffer' = PushAll(buffer, Head(chan))
    /\ chan' = Tail(chan)
    /\ srcPc' = "pop"
    /\ UNCHANGED notAudio
    /\ UNCHANGED <<pos, prodPc, prodExit, samples, txAlive, rxAlive, ret, sent, delivered>>

\* self.rx.recv_timeout(100 ms) => Err(Timeout) => continue
SrcRecvTimeoutTimeout ==
    /\ srcPc = "recv_timeout"
    /\ chan = <<>>
    /\ txAlive
    /\ srcPc' = "pop"
    /\ UNCHANGED notAudio
    /\ UNCHANGED <<pos, prodPc, prodExit, samples, chan, txAlive, rxAlive, buffer, ret,
                   sent, delivered>>

\* self.rx.recv_timeout(100 ms) => Err(Disconnected) => return None
SrcRecvTimeoutDisconnected ==
    /\ srcPc = "recv_timeout"
    /\ chan = <<>>
    /\ ~txAlive
    /\ ret' = RetNone
    /\ srcPc' = "idle"
    /\ UNCHANGED notAudio
    /\ UNCHANGED <<pos, prodPc, prodExit, samples, chan, txAlive, rxAlive, buffer, sent,
                   delivered>>

\* the sink drops the source between two pulls: the Receiver goes, and the
\* chunks still queued with it
SrcDrop ==
    /\ srcPc = "idle"
    /\ rxAlive
    /\ rxAlive' = FALSE
    /\ chan' = <<>>
    /\ buffer' = <<>>
    /\ UNCHANGED notAudio
    /\ UNCHANGED <<pos, prodPc, prodExit, samples, txAlive, srcPc, ret, sent, delivered>>

(***************************************************************************)
(* Playback Control: PlayerControl::stop, called from the input-handling   *)
(* thread ("ui") and from a second thread ("aux"); the hand-off thread     *)
(* that appends the source to the sink while holding the sink's lock.      *)
(***************************************************************************)

Callers == {"ui", "aux"}

\* sink.set_volume(0.5)
DefaultVolume == 50

\* faulty variant: the handle is borrowed (as_mut) instead of taken
StopTakeKeepsHandle(t) ==
    /\ ctlPc[t] = "take"
    /\ IF child = "Some"
       THEN /\ holds' = [holds EXCEPT ![t] = TRUE]
            /\ ctlPc' = [ctlPc EXCEPT ![t] = "kill"]
            /\ UNCHANGED <<child, childLock, stopsDone>>
       ELSE /\ childLock' = "free"
            /\ ctlPc' = [ctlPc EXCEPT ![t] = "idle"]
            /\ stopsDone' = stopsDone + 1
            /\ UNCHANGED <<child, holds>>
    /\ UNCHANGED <<sinkLock, sinkStopped, paused, volume, proc, kills, waits,
                   stopCalls, handoffPc>>
    /\ UNCHANGED notCtl

\* pub fn stop(&self): the call begins
StopCall(t) ==
    /\ ctlPc[t] = "idle"
    /\ stopCalls[t] < MaxStopCalls
    /\ stopCalls' = [stopCalls EXCEPT ![t] = @ + 1]
    /\ ctlPc' = [ctlPc EXCEPT ![t] = "lock_sink"]
    /\ UNCHANGED <<child, childLock, sinkLock, sinkStopped, paused, volume, proc,
                   kills, waits, holds, stopsDone, handoffPc>>
    /\ UNCHANGED notCtl

\* if let Ok(s) = self.sink.lock(): waits while another thread holds the
\* lock; Err when the lock is poisoned, and the sink is skipped
StopLockSink(t) ==
    /\ ctlPc[t] = "lock_sink"
    /\ sinkLock \in {"free", "poisoned"}
    /\ IF sinkLock = "free"
       THEN /\ sinkLock' = t
            /\ ctlPc' = [ctlPc EXCEPT ![t] = "sink_stop"]
       ELSE /\ ctlPc' = [ctlPc EXCEPT ![t] = "lock_child"]
            /\ UNCHANGED sinkLock
    /\ UNCHANGED <<child, childLock, sinkStopped, paused, volume, proc, kills,
                   waits, holds, stopCalls, stopsDone, handoffPc>>
    /\ UNCHANGED notCtl

\* faulty variant: the sink is locked but s.stop() is left out
StopSinkStopSkipped(t) ==
    /\ ctlPc[t] = "sink_stop"
    /\ sinkLock' = "free"
    /\ ctlPc' = [ctlPc EXCEPT ![t] = "lock_child"]
    /\ UNCHANGED <<child, childLock, sinkStopped, paused, volume, proc, kills, waits,
                   holds, stopCalls, stopsDone, handoffPc>>
    /\ UNCHANGED notCtl

\* faulty variant: the sink's guard lives on to the end of stop
StopSinkStopKeepsGuard(t) ==
    /\ ctlPc[t] = "sink_stop"
    /\ sinkStopped' = TRUE
    /\ ctlPc' = [ctlPc EXCEPT ![t] = "lock_child"]
    /\ UNCHANGED <<child, childLock, sinkLock, paused, volume, proc, kills, waits,
                   holds, stopCalls, stopsDone, handoffPc>>
    /\ UNCHANGED notCtl

\* s.stop(); the guard is dropped at the end of the block
StopSinkStop(t) ==
    /\ ctlPc[t] = "sink_stop"
    /\ sinkStopped' = TRUE
    /\ sinkLock' = "free"
    /\ ctlPc' = [ctlPc EXCEPT ![t] = "lock_child"]
    /\ UNCHANGED <<child, childLock, paused, volume, proc, kills, waits, holds,
                   stopCalls, stopsDone, handoffPc>>
    /\ UNCHANGED notCtl

\* if let Ok(mut guard) = self.child.lock()
StopLockChild(t) ==
    /\ ctlPc[t] = "lock_child"
    /\ childLock \in {"free", "poisoned"}
    /\ IF childLock = "free"
       THEN /\ childLock' = t
            /\ ctlPc' = [ctlPc EXCEPT ![t] = "take"]
            /\ UNCHANGED stopsDone
       ELSE /\ ctlPc' = [ctlPc EXCEPT ![t] = "idle"]
            /\ stopsDone' = stopsDone + 1
            /\ UNCHANGED childLock
    /\ UNCHANGED <<child, sinkLock, sinkStopped, paused, volume, proc, kills,
                   waits, holds, stopCalls, handoffPc>>
    /\ UNCHANGED notCtl

\* if let Some(mut c) = guard.take(): the handle is left None; with nothing
\* to take the guard is dropped and stop returns
StopTake(t) ==
    /\ ctlPc[t] = "take"
    /\ IF child = "Some"
       THEN /\ child' = "None"
            /\ holds' = [holds EXCEPT ![t] = TRUE]
            /\ ctlPc' = [ctlPc EXCEPT ![t] = "kill"]
            /\ UNCHANGED <<childLock, stopsDone>>
       ELSE /\ childLock' = "free"
            /\ ctlPc' = [ctlPc EXCEPT ![t] = "idle"]
            /\ stopsDone' = stopsDone + 1
            /\ UNCHANGED <<child, holds>>
    /\ UNCHANGED <<sinkLock, sinkStopped, paused, volume, proc, kills, waits,
                   stopCalls, handoffPc>>
    /\ UNCHANGED notCtl

\* let _ = c.kill()
StopKill(t) ==
    /\ ctlPc[t] = "kill"
    /\ kills' = kills + 1
    /\ proc' = IF proc = "running" THEN "killed" ELSE proc
    /\ ctlPc' = [ctlPc EXCEPT ![t] = "wait"]
    /\ UNCHANGED <<child, childLock, sinkLock, sinkStopped, paused, volume, waits,
                   holds, stopCalls, stopsDone, handoffPc>>
    /\ UNCHANGED notCtl

\* let _ = c.wait(); then c and the guard are dropped and stop returns
StopWait(t) ==
    /\ ctlPc[t] = "wait"
    /\ waits' = waits + 1
    /\ proc' = "reaped"
    /\ holds' = [holds EXCEPT ![t] = FALSE]
    /\ childLock' = "free"
    /\ ctlPc' = [ctlPc EXCEPT ![t] = "idle"]
    /\ stopsDone' = stopsDone + 1
    /\ UNCHANGED <<child, sinkLock, sinkStopped, paused, volume, kills, stopCalls,
                   handoffPc>>
    /\ UNCHANGED notCtl

\* the decoder process ends by itself
ChildExits ==
    /\ proc = "running"
    /\ proc' = "exited"
    /\ UNCHANGED <<child, childLock, sinkLock, sinkStopped, paused, volume, kills,
                   waits, ctlPc, holds, stopCalls, stopsDone, handoffPc>>
    /\ UNCHANGED notCtl

\* hand-off thread: if let Ok(sink) = sink_for_append.lock()
HandoffLock ==
    /\ handoffPc = "lock"
    /\ sinkLock \in {"free", "poisoned"}
    /\ IF sinkLock = "free"
       THEN /\ sinkLock' = "handoff"
            /\ handoffPc' = "append"
       ELSE /\ handoffPc' = "done"
            /\ UNCHANGED sinkLock
    /\ UNCHANGED <<child, childLock, sinkStopped, paused, volume, proc, kills,
                   waits, ctlPc, holds, stopCalls, stopsDone>>
    /\ UNCHANGED notCtl

\* sink.append(source); sleep(100 ms); the guard is dropped
HandoffAppend ==
    /\ handoffPc = "append"
    /\ sinkLock' = "free"
    /\ handoffPc' = "done"
    /\ UNCHANGED <<child, childLock, sinkStopped, paused, volume, proc, kills,
                   waits, ctlPc, holds, stopCalls, stopsDone>>
    /\ UNCHANGED notCtl

InitCtl ==
    /\ child = "Some"
    /\ childLock = "free"
    /\ sinkLock = "free"
    /\ sinkStopped = FALSE
    /\ paused = FALSE
    /\ volume = DefaultVolume
    /\ proc = "running"
    /\ kills = 0
    /\ waits = 0
    /\ ctlPc = [t \in Callers |-> "idle"]
    /\ holds = [t \in Callers |-> FALSE]
    /\ stopCalls = [t \in Callers |-> 0]
    /\ stopsDone = 0
    /\ handoffPc = "lock"

NextCtl ==
    \/ \E t \in Callers : StopCall(t)
    \/ \E t \in Callers : StopLockSink(t)
    \/ \E t \in Callers : StopSinkStop(t)
    \/ \E t \in Callers : StopLockChild(t)
    \/ \E t \in Callers : StopTake(t)
    \/ \E t \in Callers : StopKill(t)
    \/ \E t \in Callers : StopWait(t)
    \/ ChildExits
    \/ HandoffLock
    \/ HandoffAppend

(***************************************************************************)
(* PlayerControl's other methods.  Each locks the sink, acts and drops the *)
(* guard; with the lock poisoned lock() is Err and the method does nothing *)
(* (pause, play, set_volume) or returns its fallback (is_paused, volume).  *)
(* They are the value the method returns, or the value the sink's field    *)
(* has after it.                                                           *)
(***************************************************************************)

\* pub fn pause(&self): the paused flag afterwards
pause == IF sinkLock = "poisoned" THEN paused ELSE TRUE

\* pub fn play(&self): the paused flag afterwards
play == IF sinkLock = "poisoned" THEN paused ELSE FALSE

\* faulty variant: the volume is set also when the lock is poisoned
\* (the guard recovered with into_inner)
set_volume_recovering(vol) == vol

\* pub fn set_volume(&self, vol): the sink's volume afterwards
set_volume(vol) == IF sinkLock = "poisoned" THEN volume ELSE vol

\* pub fn is_paused(&self) -> bool
is_paused == IF sinkLock = "poisoned" THEN TRUE ELSE paused

\* pub fn volume(&self) -> f32
player_volume == IF sinkLock = "poisoned" THEN 0 ELSE volume

(***************************************************************************)
(* The amounts run_ui's key handling works with, in hundredths.            *)
(***************************************************************************)

\* (control.volume() + 0.1) and (control.volume() - 0.1)
BigStep == 10

\* (control.volume() + 0.05) and (control.volume() - 0.05)
SmallStep == 5

\* .min(2.0)
MaxVolume == 200

\* .max(0.0)
MinVolume == 0

\* ui_state.saved_volume.unwrap_or(0.5)
RestoreDefault == 50

Min2(a, b) == IF a < b THEN a ELSE b

Max2(a, b) == IF a > b THEN a ELSE b

(***************************************************************************)
(* The same methods step by step, for what a caller waits for: the call,   *)
(* self.sink.lock() (which waits while another thread holds the lock), and *)
(* the body, after which the guard is dropped and the method returns.      *)
(***************************************************************************)

SinkMethods == {"pause", "play", "set_volume", "volume", "is_paused"}

NoOp == [op |-> "none", arg |-> 0]

\* a call; set_volume is given the lowest or the highest volume
Calls ==
    {[op |-> m, arg |-> 0] : m \in SinkMethods}
        \cup {[op |-> "set_volume", arg |-> MaxVolume]}

OpCall(t) ==
    /\ ctlPc[t] = "idle"
    /\ \E c \in Calls : curOp' = [curOp EXCEPT ![t] = c]
    /\ ctlPc' = [ctlPc EXCEPT ![t] = "op_lock"]
    /\ UNCHANGED <<child, childLock, sinkLock, sinkStopped, paused, volume, proc,
                   kills, waits, holds, stopCalls, stopsDone, handoffPc>>
    /\ UNCHANGED <<audioVars, metaVars, parseVars, uiVars, decVars>>

\* if let Ok(s) = self.sink.lock(); Err when poisoned: the method returns
OpLock(t) ==
    /\ ctlPc[t] = "op_lock"
    /\ sinkLock \in {"free", "poisoned"}
    /\ IF sinkLock = "free"
       THEN /\ sinkLock' = t
            /\ ctlPc' = [ctlPc EXCEPT ![t] = "op_body"]
            /\ UNCHANGED curOp
       ELSE /\ ctlPc' = [ctlPc EXCEPT ![t] = "idle"]
            /\ curOp' = [curOp EXCEPT ![t] = NoOp]
            /\ UNCHANGED sinkLock
    /\ UNCHANGED <<child, childLock, sinkStopped, paused, volume, proc, kills,
                   waits, holds, stopCalls, stopsDone, handoffPc>>
    /\ UNCHANGED <<audioVars, metaVars, parseVars, uiVars, decVars>>

\* s.pause(), s.play(), s.set_volume(vol), s.is_paused() or s.volume(); the
\* guard is dropped and the method returns
OpBody(t) ==
    /\ ctlPc[t] = "op_body"
    /\ paused' = CASE curOp[t].op = "pause" -> TRUE
                  [] curOp[t].op = "play" -> FALSE
                  [] OTHER -> paused
    /\ volume' = IF curOp[t].op = "set_volume" THEN curOp[t].arg ELSE volume
    /\ sinkLock' = "free"
    /\ ctlPc' = [ctlPc EXCEPT ![t] = "idle"]
    /\ curOp' = [curOp EXCEPT ![t] = NoOp]
    /\ UNCHANGED <<child, childLock, sinkStopped, proc, kills, waits, holds,
                   stopCalls, stopsDone, handoffPc>>
    /\ UNCHANGED <<audioVars, metaVars, parseVars, uiVars, decVars>>

InitOp == curOp = [t \in Callers |-> NoOp]

(***************************************************************************)
(* run_ui's loop (the input-handling thread, "ui"): the draw and the arm   *)
(* of each key.  A handler runs when the thread can take the sink's lock;  *)
(* no other thread writes the volume or the paused flag, so each handler   *)
(* is one step.                                                            *)
(***************************************************************************)

\* the loop is running, the thread is not inside stop, and the lock of the
\* sink can be had
HandlerReady ==
    /\ uiPc = "loop"
    /\ ctlPc["ui"] = "idle"
    /\ stopCalls["ui"] = 0
    /\ sinkLock \in {"free", "poisoned"}

\* what a handler that only calls the sink's methods leaves alone
notSink == <<child, childLock, sinkLock, sinkStopped, proc, kills, waits, ctlPc,
             holds, stopCalls, stopsDone, handoffPc>>

notUi == <<audioVars, metaVars, parseVars, decVars, uiNp, skipped, opVars>>

\* faulty variant: the new volume is not capped with .min(2.0)
KeyPlusUncapped ==
    /\ HandlerReady
    /\ volume' = set_volume(player_volume + BigStep)
    /\ muteFrom' = <<>>
    /\ UNCHANGED <<paused, notSink, uiCtlVars, notUi>>

\* terminal.draw: the status line shows is_paused() and volume()
UiDraw ==
    /\ HandlerReady
    /\ shown' = <<[paused |-> is_paused, volume |-> player_volume]>>
    /\ UNCHANGED <<ctlVars, uiPc, savedVolume, muteFrom, notUi>>

\* KeyCode::Char(' ')
KeySpace ==
    /\ HandlerReady
    /\ paused' = IF is_paused THEN play ELSE pause
    /\ muteFrom' = <<>>
    /\ UNCHANGED <<volume, notSink, uiCtlVars, notUi>>

\* KeyCode::Char('+') | KeyCode::Char('=')
KeyPlus ==
    /\ HandlerReady
    /\ volume' = set_volume(Min2(player_volume + BigStep, MaxVolume))
    /\ muteFrom' = <<>>
    /\ UNCHANGED <<paused, notSink, uiCtlVars, notUi>>

\* KeyCode::Char('-')
KeyMinus ==
    /\ HandlerReady
    /\ volume' = set_volume(Max2(player_volume - BigStep, MinVolume))
    /\ muteFrom' = <<>>
    /\ UNCHANGED <<paused, notSink, uiCtlVars, notUi>>

\* one more mute press in a row, with the sink's volume before it
MutePresses ==
    IF muteFrom = <<>> THEN <<volume>> ELSE <<muteFrom[Len(muteFrom)], volume>>

\* faulty variant: the volume is not saved before it is set to 0
KeyMuteNoSnapshot ==
    /\ HandlerReady
    /\ volume' = set_volume(IF player_volume > 0 THEN 0
                            ELSE IF Len(savedVolume) > 0 THEN savedVolume[1]
                            ELSE RestoreDefault)
    /\ muteFrom' = MutePresses
    /\ UNCHANGED <<paused, notSink, uiCtlVars, notUi>>

\* KeyCode::Char('m')
KeyMute ==
    /\ HandlerReady
    /\ IF player_volume > 0
       THEN /\ savedVolume' = <<player_volume>>
            /\ volume' = set_volume(0)
       ELSE /\ volume' = set_volume(IF Len(savedVolume) > 0 THEN savedVolume[1]
                                                           ELSE RestoreDefault)
            /\ UNCHANGED savedVolume
    /\ muteFrom' = MutePresses
    /\ UNCHANGED <<paused, notSink, uiPc, shown, notUi>>

\* KeyCode::Up
KeyUp ==
    /\ HandlerReady
    /\ volume' = set_volume(Min2(player_volume + SmallStep, MaxVolume))
    /\ muteFrom' = <<>>
    /\ UNCHANGED <<paused, notSink, uiCtlVars, notUi>>

\* KeyCode::Down
KeyDown ==
    /\ HandlerReady
    /\ volume' = set_volume(Max2(player_volume - SmallStep, MinVolume))
    /\ muteFrom' = <<>>
    /\ UNCHANGED <<paused, notSink, uiCtlVars, notUi>>

\* KeyCode::Char('q'): control.stop() begins
KeyQuit ==
    /\ uiPc = "loop"
    /\ stopCalls["ui"] = 0
    /\ StopCall("ui")

\* ... and once stop has returned: break, the terminal is restored and
\* run_ui returns
UiBreak ==
    /\ uiPc = "loop"
    /\ stopCalls["ui"] > 0
    /\ ctlPc["ui"] = "idle"
    /\ uiPc' = "returned_ok"
    /\ UNCHANGED <<ctlVars, savedVolume, shown, muteFrom, notUi>>

\* terminal.draw(..)?, event::poll(..)? or event::read()? is Err: run_ui
\* returns the error from inside the loop
UiError ==
    /\ uiPc = "loop"
    /\ stopCalls["ui"] = 0
    /\ uiPc' = "returned_err"
    /\ UNCHANGED <<ctlVars, savedVolume, shown, muteFrom, notUi>>

NextUi ==
    \/ KeySpace
    \/ KeyPlus
    \/ KeyMinus
    \/ KeyMute
    \/ KeyUp
    \/ KeyDown
    \/ KeyQuit
    \/ StopLockSink("ui")
    \/ StopSinkStop("ui")
    \/ StopLockChild("ui")
    \/ StopTake("ui")
    \/ StopKill("ui")
    \/ StopWait("ui")
    \/ UiBreak
    \/ UiError
    \/ ChildExits
    \/ HandoffLock
    \/ HandoffAppend

(***************************************************************************)
(* JSON values (serde_json::Value) and Rust's Option and str.              *)
(*   a Value is [t |-> tag, v |-> payload]: "null", "num", "str" (payload  *)
(*   the characters), "arr" (payload a sequence of Values), "obj" (payload *)
(*   a function from keys to Values).  None is <<>>, Some(x) is <<x>>.     *)
(***************************************************************************)

JNull == [t |-> "null", v |-> <<>>]
JNum == [t |-> "num", v |-> <<>>]
JStr(s) == [t |-> "str", v |-> s]
JArr(a) == [t |-> "arr", v |-> a]
JObj(f) == [t |-> "obj", v |-> f]

\* Value::get(key): None unless v is an object that has the key
Get(v, k) == IF v.t = "obj" /\ k \in DOMAIN v.v THEN <<v.v[k]>> ELSE <<>>

\* Value::get(index): None unless v is an array that long
GetIdx(v, i) == IF v.t = "arr" /\ i + 1 <= Len(v.v) THEN <<v.v[i + 1]>> ELSE <<>>

\* Option::or_else
OrElse(a, b) == IF Len(a) > 0 THEN a ELSE b

\* .and_then(|x| x.as_str()).map(|s| s.to_string())
AsStr(o) == IF Len(o) > 0 /\ o[1].t = "str" THEN <<o[1].v>> ELSE <<>>

\* str::starts_with
StartsWith(s, p) == Len(s) >= Len(p) /\ SubSeq(s, 1, Len(p)) = p

IsSpace(c) == c \in {" ", "\t", "\n"}

\* str::trim
RECURSIVE TrimStart(_)
TrimStart(s) == IF s # <<>> /\ IsSpace(Head(s)) THEN TrimStart(Tail(s)) ELSE s

RECURSIVE TrimEnd(_)
TrimEnd(s) ==
    IF s # <<>> /\ IsSpace(s[Len(s)]) THEN TrimEnd(SubSeq(s, 1, Len(s) - 1)) ELSE s

Trim(s) == TrimEnd(TrimStart(s))

\* str::split_once(" - "): Some((before, after)) at the first occurrence
Separator == <<" ", "-", " ">>

\* faulty variant: the split is made at the last occurrence (rsplit_once)
SplitOnceLast(s) ==
    LET hits == {i \in 1..Len(s) : i + 2 <= Len(s) /\ SubSeq(s, i, i + 2) = Separator}
    IN  IF hits = {} THEN <<>>
        ELSE LET i == CHOOSE j \in hits : \A k \in hits : j >= k
             IN  <<[before |-> SubSeq(s, 1, i - 1), after |-> SubSeq(s, i + 3, Len(s))]>>

SplitOnce(s) ==
    LET hits == {i \in 1..Len(s) : i + 2 <= Len(s) /\ SubSeq(s, i, i + 2) = Separator}
    IN  IF hits = {} THEN <<>>
        ELSE LET i == CHOOSE j \in hits : \A k \in hits : j <= k
             IN  <<[before |-> SubSeq(s, 1, i - 1), after |-> SubSeq(s, i + 3, Len(s))]>>

(***************************************************************************)
(* Metadata Normalizer (metadata.rs).                                      *)
(***************************************************************************)

\* #[derive(Default)] NowPlaying
DefaultNowPlaying == [artist |-> <<>>, title |-> <<>>, art_url |-> <<>>]

HttpPrefix == <<"h", "t", "t", "p", ":", "/", "/">>
HttpsPrefix == <<"h", "t", "t", "p", "s", ":", "/", "/">>
HttpsColon == <<"h", "t", "t", "p", "s", ":">>
ApiOrigin == <<"h", "t", "t", "p", "s", ":", "/", "/", "a", "p", "i", ".", "p", "l",
               "a", "z", "a", ".", "o", "n", "e">>

\* the closure that makes the art value absolute
NormalizeArt(s) ==
    IF StartsWith(s, HttpPrefix) \/ StartsWith(s, HttpsPrefix) THEN s
    ELSE IF StartsWith(s, <<"/", "/">>) THEN HttpsColon \o s
    ELSE IF StartsWith(s, <<"/">>) THEN ApiOrigin \o s
    ELSE ApiOrigin \o <<"/">> \o s

\* faulty variant: a key whose value is not a string is passed over
RECURSIVE FirstOfStrings(_, _)
FirstOfStrings(v, keys) ==
    IF keys = <<>> THEN <<>>
    ELSE OrElse(IF Len(AsStr(Get(v, Head(keys)))) > 0 THEN Get(v, Head(keys)) ELSE <<>>,
                FirstOfStrings(v, Tail(keys)))

\* the first of the keys that v has, as an Option<&Value>
RECURSIVE FirstOf(_, _)
FirstOf(v, keys) ==
    IF keys = <<>> THEN <<>> ELSE OrElse(Get(v, Head(keys)), FirstOf(v, Tail(keys)))

extract_song_info(v) ==
    LET artist == AsStr(Get(v, "artist"))
        title == AsStr(FirstOf(v, <<"title", "song", "track">>))
        art == AsStr(FirstOf(v, <<"artwork", "artwork_url", "art", "cover", "cover_url",
                                  "image", "album_art">>))
        art_url == IF Len(art) > 0 THEN <<NormalizeArt(art[1])>> ELSE <<>>
    IN  IF Len(artist) > 0 \/ Len(title) > 0
        THEN <<[artist |-> artist, title |-> title, art_url |-> art_url]>>
        ELSE <<>>

\* the Icecast stage of parse_possible_metadata
IcecastStage(v) ==
    LET icestats == Get(v, "icestats")
        source == IF Len(icestats) > 0 THEN Get(icestats[1], "source") ELSE <<>>
    IN  IF Len(source) = 0 THEN <<>>
        ELSE LET s == IF source[1].t = "arr"
                      THEN OrElse(GetIdx(source[1], 0), source)[1]
                      ELSE source[1]
                 title == AsStr(Get(s, "title"))
             IN  IF Len(title) = 0 THEN <<>>
                 ELSE LET parts == SplitOnce(title[1])
                      IN  IF Len(parts) > 0
                          THEN <<[artist |-> <<Trim(parts[1].before)>>,
                                  title |-> <<Trim(parts[1].after)>>,
                                  art_url |-> <<>>]>>
                          ELSE <<[artist |-> <<>>, title |-> title, art_url |-> <<>>]>>

parse_possible_metadata(v) ==
    IF v.t # "obj" THEN <<>>
    ELSE LET artist == AsStr(Get(v, "artist"))
             title == AsStr(Get(v, "title"))
             image == AsStr(FirstOf(v, <<"artwork", "image", "art">>))
             cur == OrElse(Get(v, "current"), Get(v, "now_playing"))
         IN  IF Len(artist) > 0 \/ Len(title) > 0 \/ Len(image) > 0
             THEN <<[artist |-> artist, title |-> title, art_url |-> image]>>
             ELSE IF Len(cur) > 0 THEN extract_song_info(cur[1])
             ELSE IcecastStage(v)

\* faulty variant: a field that yields no record does not end the chain
parse_plaza_api_falls_through(v) ==
    LET np == Get(v, "now_playing")
        broadcast == Get(v, "broadcast")
        bnp == IF Len(broadcast) > 0 THEN Get(broadcast[1], "now_playing") ELSE <<>>
        current == Get(v, "current_song")
    IN  IF Len(np) > 0 /\ Len(extract_song_info(np[1])) > 0 THEN extract_song_info(np[1])
        ELSE IF Len(bnp) > 0 /\ Len(extract_song_info(bnp[1])) > 0
             THEN extract_song_info(bnp[1])
        ELSE IF Len(current) > 0 /\ Len(extract_song_info(current[1])) > 0
             THEN extract_song_info(current[1])
        ELSE parse_possible_metadata(v)

parse_plaza_api(v) ==
    LET np == Get(v, "now_playing")
        broadcast == Get(v, "broadcast")
        bnp == IF Len(broadcast) > 0 THEN Get(broadcast[1], "now_playing") ELSE <<>>
        current == Get(v, "current_song")
    IN  IF Len(np) > 0 THEN extract_song_info(np[1])
        ELSE IF Len(bnp) > 0 THEN extract_song_info(bnp[1])
        ELSE IF Len(current) > 0 THEN extract_song_info(current[1])
        ELSE parse_possible_metadata(v)

(***************************************************************************)
(* Response bodies the model feeds to the Normalizer.                      *)
(***************************************************************************)

SongAB == JObj([artist |-> JStr(<<"A">>), title |-> JStr(<<"B">>),
                artwork |-> JStr(<<"/", "i">>)])
SongArtOnly == JObj([artwork |-> JStr(<<"/", "i">>)])
SongViaSong == JObj([song |-> JStr(<<"S">>), cover |-> JStr(<<"/", "/", "c">>)])
SongC == JObj([title |-> JStr(<<"C">>)])
SongD == JObj([artist |-> JStr(<<"D">>), track |-> JStr(<<"E">>), image |-> JStr(<<"p">>)])
IceXY == JObj([source |-> JObj([title |-> JStr(<<"X", " ", "-", " ", "Y">>)])])
IceArr == JObj([source |-> JArr(<<JObj([title |-> JStr(<<"Z">>)])>>)])

\* per top-level key: absent (<<>>) or one of a few values
KeyChoices ==
    [now_playing : {<<>>, <<SongAB>>, <<SongArtOnly>>},
     broadcast : {<<>>, <<JNum>>, <<JObj([now_playing |-> SongViaSong])>>,
                  <<JObj([other |-> JNum])>>},
     current_song : {<<>>, <<SongC>>},
     artist : {<<>>, <<JStr(<<"F">>)>>, <<JNum>>},
     title : {<<>>, <<JStr(<<"G">>)>>},
     artwork : {<<>>, <<JStr(<<"/", "f">>)>>},
     current : {<<>>, <<SongD>>, <<SongArtOnly>>},
     icestats : {<<>>, <<IceXY>>, <<IceArr>>}]

MkObj(c) == JObj([k \in {x \in DOMAIN c : Len(c[x]) > 0} |-> c[k][1]])

Bodies == {MkObj(c) : c \in KeyChoices} \cup {JNull, JStr(<<"A">>), JArr(<<SongAB>>)}

\* candidate objects for extract_song_info: per key, absent or one of a few
\* values; the art values cover the four forms the closure tells apart
SongChoices ==
    [artist : {<<>>, <<JStr(<<"A">>)>>, <<JNum>>},
     title : {<<>>, <<JStr(<<"T">>)>>, <<JNum>>},
     song : {<<>>, <<JStr(<<"S">>)>>},
     track : {<<>>, <<JStr(<<"K">>)>>},
     artwork : {<<>>, <<JStr(HttpPrefix \o <<"a">>)>>, <<JNum>>},
     artwork_url : {<<>>, <<JStr(HttpsPrefix \o <<"b">>)>>},
     art : {<<>>, <<JStr(<<"/", "/", "c">>)>>},
     cover : {<<>>, <<JStr(<<"/", "d">>)>>},
     cover_url : {<<>>, <<JStr(<<"e">>)>>},
     image : {<<>>, <<JStr(<<"h", "t", "t", "p", "/", "f">>)>>},
     album_art : {<<>>, <<JNull>>}]

SongInputs == {MkObj(c) : c \in SongChoices} \cup {JNull, JArr(<<SongAB>>)}

\* bodies of the Icecast shape: every title of MaxTitleLen characters or
\* fewer over a letter, the space and the dash, and one with two separators,
\* under a source that is an object, an array of one or an array of two;
\* and the shapes that carry no usable title
MaxTitleLen == 5

TitleChars == {"A", " ", "-"}

IceTitles ==
    UNION {[1..n -> TitleChars] : n \in 0..MaxTitleLen}
        \cup {<<"A", " ", "-", " ", "B", " ", "-", " ", "C">>}

IceSources ==
    {JObj([title |-> JStr(t)]) : t \in IceTitles}
        \cup {JArr(<<JObj([title |-> JStr(t)])>>) : t \in IceTitles}
        \cup {JArr(<<JObj([title |-> JStr(t)]), JObj([title |-> JStr(<<"Q">>)])>>) :
                  t \in IceTitles}
        \cup {JArr(<<>>), JArr(<<JNum>>), JStr(<<"A">>), JObj([title |-> JNum]),
              JObj([name |-> JStr(<<"A">>)]),
              JArr(<<JObj([name |-> JStr(<<"A">>)]), JObj([title |-> JStr(<<"Q">>)])>>)}

IceInputs ==
    {JObj([icestats |-> JObj([source |-> src])]) : src \in IceSources}
        \cup {JObj([icestats |-> JNum]), JObj([icestats |-> JObj([name |-> JNum])])}

\* the bodies the poller's endpoints answer with
PollBodies ==
    {JObj([now_playing |-> SongAB]),
     JObj([artwork |-> JStr(<<"/", "i">>)]),
     JObj([artist |-> JStr(<<"F">>), title |-> JStr(<<"G">>)]),
     JObj([artist |-> JStr(<<"F">>), title |-> JStr(<<"G">>),
           artwork |-> JStr(<<"/", "f">>)]),
     JObj([icestats |-> IceXY]),
     JObj([current_song |-> SongC]),
     JObj([now_playing |-> SongArtOnly]),
     JObj(<<>>),
     JStr(<<"A">>)}

(***************************************************************************)
(* The Normalizer's functions applied to an input (checked under           *)
(* SpecParse, whose initial states draw the input from Bodies).            *)
(***************************************************************************)

ApplyParsePlazaApi ==
    /\ parseFn = ""
    /\ parseFn' = "parse_plaza_api"
    /\ parseOut' = parse_plaza_api(parseIn)
    /\ UNCHANGED parseIn
    /\ UNCHANGED notParse

ApplyParsePossibleMetadata ==
    /\ parseFn = ""
    /\ parseFn' = "parse_possible_metadata"
    /\ parseOut' = parse_possible_metadata(parseIn)
    /\ UNCHANGED parseIn
    /\ UNCHANGED notParse

ApplyExtractSongInfo ==
    /\ parseFn = ""
    /\ parseFn' = "extract_song_info"
    /\ parseOut' = extract_song_info(parseIn)
    /\ UNCHANGED parseIn
    /\ UNCHANGED notParse

InitParseIdle ==
    /\ parseFn = ""
    /\ parseIn = JNull
    /\ parseOut = <<>>

InitSongInput ==
    /\ parseFn = ""
    /\ parseIn \in SongInputs
    /\ parseOut = <<>>

InitParseInput ==
    /\ parseFn = ""
    /\ parseIn \in Bodies
    /\ parseOut = <<>>

NextParse ==
    \/ ApplyParsePlazaApi
    \/ ApplyParsePossibleMetadata
    \/ ApplyExtractSongInfo

(***************************************************************************)
(* Metadata Poller: metadata_loop (metadata.rs), publishing through the    *)
(* watch channel created in main (main.rs).                                *)
(***************************************************************************)

\* what a request ends with: send() failed, a non-success status, a body
\* that is not JSON, or a success status with a JSON body
Responses ==
    {[kind |-> k, body |-> JNull] : k \in {"neterr", "badstatus", "badjson"}}
        \cup {[kind |-> "ok", body |-> b] : b \in PollBodies}

\* fallback_urls.len()
NumFallbacks == 3

\* the sends counted since the subscriber's last read stop counting here
MaxUnread == 2

Bump(n) == IF n < MaxUnread THEN n + 1 ELSE n

\* the record the primary's response yields, if any: Ok(resp), a success
\* status, Ok(json) and Some(np) from parse_plaza_api
PrimaryRecord(r) == IF r.kind = "ok" THEN parse_plaza_api(r.body) ELSE <<>>

\* the same for a fallback's response, through parse_possible_metadata
FallbackRecord(r) == IF r.kind = "ok" THEN parse_possible_metadata(r.body) ELSE <<>>

\* how the request went, as the loop sees it
Outcome(r, rec) ==
    IF r.kind # "ok" THEN r.kind ELSE IF Len(rec) > 0 THEN "record" ELSE "norecord"

\* faulty variant: a failed request is propagated with `?` and ends the loop
MetaPrimaryPropagates ==
    /\ metaPc = "primary"
    /\ \E r \in Responses :
        LET rec == PrimaryRecord(r)
        IN  /\ reqs' = Append(reqs, 0)
            /\ outs' = Append(outs, Outcome(r, rec))
            /\ lastParsed' = rec
            /\ lastSent' = IF Len(rec) > 0 THEN rec[1] ELSE lastSent
            /\ unread' = IF Len(rec) > 0 THEN Bump(unread) ELSE unread
            /\ IF Len(rec) > 0
               THEN /\ published' = rec[1]
                    /\ pubs' = pubs + 1
                    /\ yielded' = TRUE
                    /\ metaPc' = "tick"
                    /\ UNCHANGED fbIdx
               ELSE /\ metaPc' = IF r.kind = "neterr" THEN "returned" ELSE "fallback"
                    /\ fbIdx' = 1
                    /\ UNCHANGED <<published, pubs, yielded>>
    /\ UNCHANGED cycleStart
    /\ UNCHANGED notMeta

\* faulty variant: a published fallback record does not end the cycle (no break)
MetaFallbackNoBreak ==
    /\ metaPc = "fallback"
    /\ \E r \in Responses :
        LET rec == FallbackRecord(r)
        IN  /\ reqs' = Append(reqs, fbIdx)
            /\ outs' = Append(outs, Outcome(r, rec))
            /\ lastParsed' = rec
            /\ lastSent' = IF Len(rec) > 0 THEN rec[1] ELSE lastSent
            /\ unread' = IF Len(rec) > 0 THEN Bump(unread) ELSE unread
            /\ IF Len(rec) > 0
               THEN /\ published' = rec[1]
                    /\ pubs' = pubs + 1
                    /\ yielded' = TRUE
               ELSE UNCHANGED <<published, pubs, yielded>>
            /\ IF fbIdx < NumFallbacks
               THEN /\ fbIdx' = fbIdx + 1
                    /\ UNCHANGED metaPc
               ELSE /\ metaPc' = "tick"
                    /\ UNCHANGED fbIdx
    /\ UNCHANGED cycleStart
    /\ UNCHANGED notMeta

\* faulty variant: a cycle in which every candidate failed publishes the default
MetaFallbackResets ==
    /\ metaPc = "fallback"
    /\ \E r \in Responses :
        LET rec == FallbackRecord(r)
        IN  /\ reqs' = Append(reqs, fbIdx)
            /\ outs' = Append(outs, Outcome(r, rec))
            /\ lastParsed' = rec
            /\ lastSent' = IF Len(rec) > 0 THEN rec[1] ELSE lastSent
            /\ unread' = IF Len(rec) > 0 THEN Bump(unread) ELSE unread
            /\ IF Len(rec) > 0
               THEN /\ published' = rec[1]
                    /\ pubs' = pubs + 1
                    /\ yielded' = TRUE
                    /\ metaPc' = "tick"
                    /\ UNCHANGED fbIdx
               ELSE IF fbIdx < NumFallbacks
               THEN /\ fbIdx' = fbIdx + 1
                    /\ UNCHANGED <<metaPc, published, pubs, yielded>>
               ELSE /\ metaPc' = "tick"
                    /\ published' = DefaultNowPlaying
                    /\ UNCHANGED <<fbIdx, pubs, yielded>>
    /\ UNCHANGED cycleStart
    /\ UNCHANGED notMeta

\* ticker.tick().await: a cycle begins
MetaTick ==
    /\ metaPc = "tick"
    /\ metaPc' = "primary"
    /\ reqs' = <<>>
    /\ outs' = <<>>
    /\ pubs' = 0
    /\ yielded' = FALSE
    /\ lastParsed' = <<>>
    /\ cycleStart' = published
    /\ UNCHANGED <<fbIdx, published, lastSent, unread>>
    /\ UNCHANGED notMeta

\* client.get(primary_url).send().await and what follows: a record from
\* parse_plaza_api is sent and the loop continues with the next tick; any
\* other outcome goes on to the fallbacks
MetaPrimary ==
    /\ metaPc = "primary"
    /\ \E r \in Responses :
        LET rec == PrimaryRecord(r)
        IN  /\ reqs' = Append(reqs, 0)
            /\ outs' = Append(outs, Outcome(r, rec))
            /\ lastParsed' = rec
            /\ lastSent' = IF Len(rec) > 0 THEN rec[1] ELSE lastSent
            /\ unread' = IF Len(rec) > 0 THEN Bump(unread) ELSE unread
            /\ IF Len(rec) > 0
               THEN /\ published' = rec[1]
                    /\ pubs' = pubs + 1
                    /\ yielded' = TRUE
                    /\ metaPc' = "tick"
                    /\ UNCHANGED fbIdx
               ELSE /\ metaPc' = "fallback"
                    /\ fbIdx' = 1
                    /\ UNCHANGED <<published, pubs, yielded>>
    /\ UNCHANGED cycleStart
    /\ UNCHANGED notMeta

\* one pass of `for url in &fallback_urls`: a record from
\* parse_possible_metadata is sent and the loop is left (break); any other
\* outcome goes on to the next url, or to the next tick after the last one
MetaFallback ==
    /\ metaPc = "fallback"
    /\ \E r \in Responses :
        LET rec == FallbackRecord(r)
        IN  /\ reqs' = Append(reqs, fbIdx)
            /\ outs' = Append(outs, Outcome(r, rec))
            /\ lastParsed' = rec
            /\ lastSent' = IF Len(rec) > 0 THEN rec[1] ELSE lastSent
            /\ unread' = IF Len(rec) > 0 THEN Bump(unread) ELSE unread
            /\ IF Len(rec) > 0
               THEN /\ published' = rec[1]
                    /\ pubs' = pubs + 1
                    /\ yielded' = TRUE
                    /\ metaPc' = "tick"
                    /\ UNCHANGED fbIdx
               ELSE /\ UNCHANGED <<published, pubs, yielded>>
                    /\ IF fbIdx < NumFallbacks
                       THEN /\ fbIdx' = fbIdx + 1
                            /\ UNCHANGED metaPc
                       ELSE /\ metaPc' = "tick"
                            /\ UNCHANGED fbIdx
    /\ UNCHANGED cycleStart
    /\ UNCHANGED notMeta

\* watch::channel(NowPlaying::default()); the task is spawned
InitMeta ==
    /\ metaPc = "tick"
    /\ fbIdx = 1
    /\ published = DefaultNowPlaying
    /\ reqs = <<>>
    /\ outs = <<>>
    /\ pubs = 0
    /\ yielded = FALSE
    /\ lastParsed = <<>>
    /\ cycleStart = DefaultNowPlaying
    /\ lastSent = DefaultNowPlaying
    /\ unread = 0

NextMeta ==
    \/ MetaTick
    \/ MetaPrimary
    \/ MetaFallback

(***************************************************************************)
(* The subscriber: run_ui reads the watch channel at the top of every pass *)
(* of its loop, `rx.lock().await.borrow().clone()`: a copy of the whole    *)
(* value the channel holds, taken under the receiver's lock.               *)
(***************************************************************************)

\* faulty variant: the subscriber is handed the value of before this cycle
UiReadNowPlayingStale ==
    /\ uiNp' = <<cycleStart>>
    /\ unread' = 0
    /\ skipped' = unread
    /\ UNCHANGED <<metaPc, fbIdx, published, reqs, outs, pubs, yielded, lastParsed,
                   cycleStart, lastSent>>
    /\ UNCHANGED <<audioVars, ctlVars, parseVars, decVars, uiCtlVars, muteFrom, opVars>>

UiReadNowPlaying ==
    /\ uiNp' = <<published>>
    /\ unread' = 0
    /\ skipped' = unread
    /\ UNCHANGED <<metaPc, fbIdx, published, reqs, outs, pubs, yielded, lastParsed,
                   cycleStart, lastSent>>
    /\ UNCHANGED <<audioVars, ctlVars, parseVars, decVars, uiCtlVars, muteFrom, opVars>>

\* run_ui has not read the channel yet
InitUi ==
    /\ uiNp = <<>>
    /\ skipped = 0
    /\ uiPc = "loop"
    /\ savedVolume = <<>>
    /\ shown = <<>>
    /\ muteFrom = <<>>

\* the same program with the sink's mutex poisoned (a thread panicked while
\* holding it), and the child's mutex healthy or poisoned
InitCtlPoisoned ==
    /\ child = "Some"
    /\ childLock \in {"free", "poisoned"}
    /\ sinkLock = "poisoned"
    /\ sinkStopped = FALSE
    /\ paused = FALSE
    /\ volume = DefaultVolume
    /\ proc = "running"
    /\ kills = 0
    /\ waits = 0
    /\ ctlPc = [t \in Callers |-> "idle"]
    /\ holds = [t \in Callers |-> FALSE]
    /\ stopCalls = [t \in Callers |-> 0]
    /\ stopsDone = 0
    /\ handoffPc = "lock"

\* what can run then: no thread gets to hold the sink's lock
NextPoisoned ==
    \/ UiDraw
    \/ KeySpace
    \/ KeyPlus
    \/ KeyMinus
    \/ KeyMute
    \/ KeyUp
    \/ KeyDown
    \/ KeyQuit
    \/ StopLockSink("ui")
    \/ StopLockChild("ui")
    \/ StopTake("ui")
    \/ StopKill("ui")
    \/ StopWait("ui")
    \/ UiBreak
    \/ UiError
    \/ ChildExits
    \/ HandoffLock

(***************************************************************************)
(* The pipeline and the control together, for what happens after stop.     *)
(* The decoder's pipe reaches end of file only once the process is gone;   *)
(* the sink pulls the source only after the hand-off and while it is not   *)
(* paused; a stopped sink empties its queue, which drops the source        *)
(* between two pulls.  run_ui starts 200 ms after the hand-off thread, so  *)
(* the keys come after the hand-off.                                       *)
(***************************************************************************)

\* what the pipe delivers here: a first block of MaxRead bytes, then single
\* bytes (the smallest chunks, which fill the channel soonest)
PipeRead == ProducerRead /\ pos' - pos = (IF pos = 0 THEN MaxRead ELSE 1)

PipeEof == proc # "running" /\ ProducerEof

SinkPull == handoffPc = "done" /\ ~paused /\ SrcCall

SinkEmptiesQueue == handoffPc = "done" /\ sinkStopped /\ SrcDrop

PauseKey == handoffPc = "done" /\ KeySpace

QuitKey == handoffPc = "done" /\ KeyQuit

ProducerSteps ==
    \/ PipeEof
    \/ ProducerSendOk
    \/ ProducerSendErr

MixerSteps ==
    \/ SinkPull
    \/ SrcPop
    \/ SrcTryRecvOk
    \/ SrcTryRecvEmpty
    \/ SrcTryRecvDisconnected
    \/ SrcRecvTimeoutOk
    \/ SrcRecvTimeoutTimeout
    \/ SrcRecvTimeoutDisconnected
    \/ SinkEmptiesQueue

StopSteps ==
    \/ StopLockSink("ui")
    \/ StopSinkStop("ui")
    \/ StopLockChild("ui")
    \/ StopTake("ui")
    \/ StopKill("ui")
    \/ StopWait("ui")

HandoffSteps ==
    \/ HandoffLock
    \/ HandoffAppend

NextShutdown ==
    \/ PipeRead
    \/ ProducerSteps
    \/ MixerSteps
    \/ PauseKey
    \/ QuitKey
    \/ StopSteps
    \/ HandoffSteps

(***************************************************************************)
(* The input-handling thread calling any method of PlayerControl, in any   *)
(* order and at any time, beside the pipeline and the hand-off thread.     *)
(***************************************************************************)

CallerSteps ==
    \/ OpLock("ui")
    \/ OpBody("ui")
    \/ StopSteps

NextOps ==
    \/ OpCall("ui")
    \/ StopCall("ui")
    \/ CallerSteps
    \/ HandoffSteps
    \/ PipeRead
    \/ ProducerSteps
    \/ MixerSteps

NextWatch ==
    \/ NextMeta
    \/ UiReadNowPlaying

(***************************************************************************)
(* Specifications.                                                         *)
(***************************************************************************)

InitAudio ==
    /\ pos = 0
    /\ prodPc = "read"
    /\ prodExit = ""
    /\ samples = <<>>
    /\ chan = <<>>
    /\ txAlive = TRUE
    /\ rxAlive = TRUE
    /\ buffer = <<>>
    /\ srcPc = "idle"
    /\ ret = NoReturn
    /\ sent = <<>>
    /\ delivered = <<>>

Init == InitAudio /\ InitCtl /\ InitMeta /\ InitParseIdle /\ InitUi /\ InitDecIdle
        /\ InitOp

InitParse ==
    InitAudio /\ InitCtl /\ InitMeta /\ InitParseInput /\ InitUi /\ InitDecIdle /\ InitOp

InitExtract ==
    InitAudio /\ InitCtl /\ InitMeta /\ InitSongInput /\ InitUi /\ InitDecIdle
        /\ InitOp

InitIcecast ==
    /\ InitAudio /\ InitCtl /\ InitMeta /\ InitUi /\ InitDecIdle /\ InitOp
    /\ parseFn = ""
    /\ parseIn \in IceInputs
    /\ parseOut = <<>>

InitDecode ==
    InitAudio /\ InitCtl /\ InitMeta /\ InitParseIdle /\ InitUi /\ InitDecInput /\ InitOp

NextAudio ==
    \/ ProducerRead
    \/ ProducerEof
    \/ ProducerReadErr
    \/ ProducerSendOk
    \/ ProducerSendErr
    \/ SrcCall
    \/ SrcPop
    \/ SrcTryRecvOk
    \/ SrcTryRecvEmpty
    \/ SrcTryRecvDisconnected
    \/ SrcRecvTimeoutOk
    \/ SrcRecvTimeoutTimeout
    \/ SrcRecvTimeoutDisconnected
    \/ SrcDrop

SpecAudio == Init /\ [][NextAudio]_vars

SpecCtl == Init /\ [][NextCtl]_vars

SpecMeta == Init /\ [][NextMeta]_vars

\* the poller is a spawned task that the runtime keeps scheduling, and each
\* request ends (the client has a 30 s timeout)
SpecMetaFair == SpecMeta /\ WF_vars(NextMeta)

SpecParse == InitParse /\ [][NextParse]_vars

\* the input-handling thread, the hand-off thread and the decoder process
SpecUi == Init /\ [][NextUi]_vars

\* extract_song_info on every candidate object of SongInputs
SpecExtract == InitExtract /\ [][ApplyExtractSongInfo]_vars

\* parse_possible_metadata on every body of IceInputs
SpecIcecast == InitIcecast /\ [][ApplyParsePossibleMetadata]_vars

\* the byte-pair loop on every block of DecCap bytes or fewer
SpecDecode == InitDecode /\ [][ApplyDecode]_vars

InitPoisoned ==
    InitAudio /\ InitCtlPoisoned /\ InitMeta /\ InitParseIdle /\ InitUi /\ InitDecIdle
        /\ InitOp

SpecPoisoned == InitPoisoned /\ [][NextPoisoned]_vars

\* each thread that can take a step is scheduled: the producer thread, the
\* sink's mixer thread, the thread inside stop and the hand-off thread (the
\* arrival of bytes and of keys is not forced)
SpecShutdown ==
    /\ Init
    /\ [][NextShutdown]_vars
    /\ WF_vars(ProducerSteps)
    /\ WF_vars(MixerSteps)
    /\ WF_vars(StopSteps)
    /\ WF_vars(HandoffSteps)

\* only the calling thread and the hand-off thread are sure to run: the
\* producer and the sink's thread may stay where they are for ever
SpecOps ==
    /\ Init
    /\ [][NextOps]_vars
    /\ WF_vars(CallerSteps)
    /\ WF_vars(HandoffSteps)

\* the poller and the subscriber side by side
SpecWatch == Init /\ [][NextWatch]_vars

(***************************************************************************)
(* Claims about the audio pipeline (checked under SpecAudio).              *)
(***************************************************************************)

\* what a sample s looks like once the source has returned it
Scaled(seq) == [i \in 1..Len(seq) |-> [kind |-> "sample", num |-> seq[i], den |-> 32768]]

\* the values next returned that came from samples (not synthesized)
RealDelivered == SelectSeq(delivered, LAMBDA r : r.kind = "sample")

\* a step in which a call of next returns Some(..)
ReturnsSome == Len(delivered') > Len(delivered)

\* a step in which a call of next returns (Some or None)
Returns == srcPc # "idle" /\ srcPc' = "idle"

\* C1: the source returns the samples the channel accepted in the order sent
\* (chunk order, then position in the chunk), each once, none skipped, and
\* returns no synthesized zero while a sent sample waits in the ring buffer
\* or the channel.
C1_InOrderExactlyOnce ==
    /\ [](IsPrefix(RealDelivered, Scaled(sent)))
    /\ [](rxAlive => Scaled(sent) = RealDelivered \o Scaled(buffer \o Flatten(chan)))
    /\ [][(ReturnsSome /\ ret'.kind = "silence") => (buffer = <<>> /\ chan = <<>>)]_vars

\* samples of at least two chunks were returned and more are on their way
C1_Witness ==
    /\ Len(RealDelivered) >= 3
    /\ buffer # <<>>
    /\ chan # <<>>
    /\ Len(Head(chan)) >= 2

\* C2 (as claimed): when the ring buffer is empty, the channel is connected
\* and the 100 ms wait ends with no chunk, the pull returns a zero sample.
C2_SilenceOnTimeout ==
    [][(srcPc = "recv_timeout" /\ srcPc' # "recv_timeout" /\ chan = <<>> /\ txAlive)
        => (srcPc' = "idle" /\ ret' = Silence)]_vars

\* C3: None is returned only once the sender is gone and every sample sent
\* has been returned; a pull that ends with nothing left and the sender gone
\* returns None; after a None every pull returns None and nothing more is
\* produced.
C3_EndAfterDrain ==
    /\ [](ret.kind = "none" => (~txAlive /\ RealDelivered = Scaled(sent)))
    /\ [][(Returns /\ ~txAlive /\ chan = <<>> /\ buffer = <<>>) => ret' = RetNone]_vars
    /\ [][ret.kind = "none" => (ret'.kind = "none" /\ delivered' = delivered)]_vars

\* the sequence has ended after samples were delivered, and a further pull
\* is under way
C3_Witness ==
    /\ ret.kind = "none"
    /\ Len(sent) >= 2
    /\ srcPc = "try_recv"
    /\ prodExit = "eof"

\* C4: the channel never holds more than 10 chunks; with the channel full the
\* producer stays in send with its chunk and reads nothing; a send ends with
\* the chunk queued, or with the producer's end because the receiver is gone.
C4_BoundedChannel ==
    /\ [](Len(chan) <= 10)
    /\ [][(prodPc = "send" /\ Len(chan) = 10)
            => UNCHANGED <<prodPc, samples, pos, sent>>]_vars
    /\ [][(prodPc = "send" /\ prodPc' # "send")
            => \/ (prodPc' = "read" /\ chan' = Append(chan, samples))
               \/ (prodPc' = "done" /\ ~rxAlive /\ ~txAlive')]_vars

\* the channel is full and the producer waits in send with a chunk in hand
C4_Witness ==
    /\ Len(chan) = 10
    /\ prodPc = "send"
    /\ samples # <<>>
    /\ rxAlive

(***************************************************************************)
(* Claims about the playback control (checked under SpecCtl).              *)
(***************************************************************************)

\* the state PlayerControl stands for: the handle, the sink, the process
ctlState == <<child, sinkStopped, paused, volume, proc, kills, waits>>

\* a step of some call of stop
StopStep == ctlPc' # ctlPc

\* C5: over any sequence of stop calls, sequential or concurrent, the child
\* is killed and waited for at most once; once a stop has returned the handle
\* is empty and the one kill and wait have happened, and no step of a later
\* stop changes the state.
C5_StopIdempotent ==
    /\ [](kills <= 1 /\ waits <= 1)
    /\ [](stopsDone >= 1 =>
            (child = "None" /\ sinkStopped /\ kills = 1 /\ waits = 1 /\ proc = "reaped"))
    /\ [][(stopsDone >= 1 /\ StopStep) => ctlState' = ctlState]_vars

\* both callers stopped, one of them twice, and the child was killed once
C5_Witness ==
    /\ stopCalls["ui"] = 2
    /\ stopCalls["aux"] >= 1
    /\ stopsDone >= 3
    /\ kills = 1

(***************************************************************************)
(* Claims about the metadata poller (checked under SpecMeta, C8 under      *)
(* SpecMetaFair) and the normalizer (checked under SpecParse).             *)
(***************************************************************************)

\* a step in which a candidate endpoint was requested
Requested == reqs' # reqs /\ reqs' # <<>>

\* C6: in every cycle the candidates are requested in the order primary,
\* fallback 1, 2, 3, from the primary on; a candidate that yields a record
\* ends the cycle, its record is the one published, nothing is requested
\* after it in the cycle, and a cycle publishes at most once.
C6_OrderAndFirstWins ==
    /\ [](IsPrefix(reqs, <<0, 1, 2, 3>>))
    /\ [](pubs <= 1)
    /\ [][(metaPc = "tick" /\ metaPc' # "tick") => (metaPc' = "primary" /\ reqs' = <<>>)]_vars
    /\ [][(Requested /\ Len(lastParsed') > 0)
            => (published' = lastParsed'[1] /\ pubs' = pubs + 1 /\ metaPc' = "tick")]_vars
    /\ [][(Requested /\ Len(lastParsed') = 0)
            => (published' = published /\ pubs' = pubs)]_vars
    /\ [][pubs = 1 => ~Requested]_vars

\* the third candidate of a cycle yielded a record and the cycle ended
\* there, after an earlier cycle had published another record
C6_Witness ==
    /\ metaPc = "tick"
    /\ reqs = <<0, 1, 2>>
    /\ pubs = 1
    /\ published # cycleStart
    /\ cycleStart # DefaultNowPlaying

\* C7: a cycle in which no candidate yields a record publishes nothing and
\* leaves the published value as it was before the cycle.
C7_NoRecordNoPublish ==
    (metaPc = "tick" /\ ~yielded) => (published = cycleStart /\ pubs = 0)

\* a cycle ended with all four candidates without a record, after an
\* earlier cycle had published
C7_Witness ==
    /\ metaPc = "tick"
    /\ reqs = <<0, 1, 2, 3>>
    /\ ~yielded
    /\ published # DefaultNowPlaying

Failures == {"neterr", "badstatus", "badjson"}

\* C8: a request that ends in a network error, a non-success status or a
\* JSON decode failure publishes nothing and hands over to the next
\* candidate in order, or ends the cycle after the last fallback; the loop
\* never returns, and every cycle reaches the next tick.
C8_FailuresFallThrough ==
    /\ [](metaPc # "returned")
    /\ [][(Requested /\ outs'[Len(outs')] \in Failures)
            => /\ published' = published
               /\ pubs' = pubs
               /\ IF reqs'[Len(reqs')] = 3
                  THEN metaPc' = "tick"
                  ELSE metaPc' = "fallback" /\ fbIdx' = reqs'[Len(reqs')] + 1]_vars
    /\ (metaPc # "tick") ~> (metaPc = "tick")

\* a cycle met all three kinds of failure and reached the next tick
C8_Witness ==
    /\ metaPc = "tick"
    /\ outs = <<"neterr", "badstatus", "badjson", "neterr">>
    /\ published # DefaultNowPlaying

Has(v, k) == v.t = "obj" /\ k \in DOMAIN v.v

\* C9: parse_plaza_api returns the extraction of now_playing when the object
\* has it, else of broadcast.now_playing when it has that, else of
\* current_song when it has that, and the generic extraction only when it
\* has none of the three.
C9_PriorityChain ==
    parseFn = "parse_plaza_api" =>
        parseOut =
            IF Has(parseIn, "now_playing")
            THEN extract_song_info(parseIn.v["now_playing"])
            ELSE IF Has(parseIn, "broadcast") /\ Has(parseIn.v["broadcast"], "now_playing")
            THEN extract_song_info(parseIn.v["broadcast"].v["now_playing"])
            ELSE IF Has(parseIn, "current_song")
            THEN extract_song_info(parseIn.v["current_song"])
            ELSE parse_possible_metadata(parseIn)

\* now_playing wins and yields nothing although broadcast.now_playing,
\* current_song and the flat keys would each yield a record
C9_Witness ==
    /\ parseFn = "parse_plaza_api"
    /\ Has(parseIn, "now_playing")
    /\ Has(parseIn, "broadcast") /\ Has(parseIn.v["broadcast"], "now_playing")
    /\ Has(parseIn, "current_song")
    /\ Has(parseIn, "artist")
    /\ parseOut = <<>>

\* C10 (as claimed): every record published has artist or title present.
C10_ArtistOrTitle ==
    published # DefaultNowPlaying => (Len(published.artist) > 0 \/ Len(published.title) > 0)

(***************************************************************************)
(* C11: every record in the published cell, whether it came through the   *)
(* primary or the generic path, has art_url absent or absolute, that is   *)
(* beginning with http:// or https://.                                     *)
(***************************************************************************)
IsAbsolute(u) == StartsWith(u, HttpPrefix) \/ StartsWith(u, HttpsPrefix)

C11_ArtAbsolute ==
    Len(published.art_url) > 0 => IsAbsolute(published.art_url[1])

(***************************************************************************)
(* C12: the published cell is a single slot holding the latest value.  A  *)
(* read by the subscriber returns the record of the most recent send (the *)
(* default record before the first one), whole, however many sends went   *)
(* unread before it; and a send never waits for a read: whenever the      *)
(* poller is about to request a candidate, its step can be taken whatever  *)
(* the subscriber has or has not read.                                     *)
(***************************************************************************)
ReadStep == uiNp' # uiNp \/ unread' < unread

C12_LatestValue ==
    /\ [][ReadStep => uiNp' = <<lastSent>>]_vars
    /\ [](metaPc = "primary" => ENABLED MetaPrimary)
    /\ [](metaPc = "fallback" => ENABLED MetaFallback)

\* two records were sent with no read between them, and the read that
\* followed returned the second one, not the first
C12_Witness ==
    /\ Len(uiNp) > 0
    /\ unread = 0
    /\ skipped = MaxUnread
    /\ uiNp[1] = lastSent
    /\ uiNp[1] # cycleStart
    /\ cycleStart # DefaultNowPlaying

(***************************************************************************)
(* C13: starting from the default volume 0.5, after any sequence of       *)
(* volume-up (+0.1, +0.05), volume-down (-0.1, -0.05), mute/unmute, pause *)
(* and play operations, the volume held by the sink is within [0.0, 2.0]. *)
(***************************************************************************)
C13_VolumeInRange == MinVolume <= volume /\ volume <= MaxVolume

\* the cap was needed: the volume is at 2.0, the value 0.5 is saved by a
\* mute, and playback has been paused
C13_Witness ==
    /\ volume = MaxVolume
    /\ savedVolume = <<DefaultVolume>>
    /\ paused

(***************************************************************************)
(* C14: with the sink's lock poisoned, volume() returns 0.0 and           *)
(* is_paused() returns true (so the status line shows paused at volume 0), *)
(* pause, play and set_volume change nothing in the sink, and stop skips   *)
(* the sink; stop still takes, kills and waits for the child when the      *)
(* child's lock is healthy, and leaves the child alone when that lock is   *)
(* poisoned too.                                                           *)
(***************************************************************************)
C14_PoisonedDegrades ==
    sinkLock = "poisoned" =>
        /\ player_volume = 0
        /\ is_paused
        /\ Len(shown) > 0 => shown[1] = [paused |-> TRUE, volume |-> 0]
        /\ volume = DefaultVolume
        /\ ~paused
        /\ ~sinkStopped
        /\ savedVolume = <<>>
        /\ stopsDone > 0 =>
              IF childLock = "poisoned"
              THEN child = "Some" /\ kills = 0 /\ waits = 0
              ELSE child = "None" /\ kills = 1 /\ waits = 1 /\ proc = "reaped"

\* the status line was drawn, 'q' was pressed, and stop killed the child
\* although it could not stop the sink
C14_Witness ==
    /\ sinkLock = "poisoned"
    /\ Len(shown) > 0
    /\ uiPc = "returned_ok"
    /\ kills = 1

\* the same with the child's lock poisoned: stop returned with the child
\* still in the handle
C14_WitnessChildPoisoned ==
    /\ sinkLock = "poisoned"
    /\ childLock = "poisoned"
    /\ stopsDone = 1
    /\ child = "Some"

(***************************************************************************)
(* C15: a block of n bytes gives exactly floor(n/2) samples, sample k     *)
(* being the signed 16-bit value of byte[2k] + 256*byte[2k+1]; the bytes   *)
(* used can be recovered from the samples in the same order (so on blocks  *)
(* of even length the mapping is injective and keeps the order); with n    *)
(* odd the last byte is dropped, and nothing at or after index n of the    *)
(* array has any influence.                                                *)
(***************************************************************************)
Signed16(u) == IF u >= 32768 THEN u - 65536 ELSE u

\* the two bytes of each sample, low byte first
RECURSIVE EncodeLE(_)
EncodeLE(ss) ==
    IF ss = <<>> THEN <<>>
    ELSE <<(Head(ss) % 65536) % 256, (Head(ss) % 65536) \div 256>>
             \o EncodeLE(Tail(ss))

C15_PairDecoding ==
    Len(decOut) > 0 =>
        LET out == decOut[1]
        IN  /\ Len(out) = decN \div 2
            /\ \A k \in 0..(Len(out) - 1) :
                  out[k + 1] = Signed16(decBuf[2 * k + 1] + 256 * decBuf[2 * k + 2])
            /\ EncodeLE(out) = SubSeq(decBuf, 1, 2 * (decN \div 2))

\* an odd block: three bytes 0, 128, 255 gave the single sample -32768
C15_Witness ==
    /\ decN = 3
    /\ SubSeq(decBuf, 1, 3) = <<0, 128, 255>>
    /\ decOut = <<(<<-32768>>)>>

(***************************************************************************)
(* C16: once the child is spawned, on every way out of the program (the   *)
(* quit key, an error returned from the UI loop) the child has been        *)
(* killed and waited for by the time run_ui has returned and main ends.    *)
(***************************************************************************)
C16_ChildReapedAtExit ==
    uiPc # "loop" => kills >= 1 /\ waits >= 1 /\ proc = "reaped"

(***************************************************************************)
(* C17 as claimed, in the part a finite run can refute: after stop the    *)
(* Streaming Audio Source reports end-of-sequence, so a source that no     *)
(* longer exists after stop has returned None.                             *)
(***************************************************************************)
C17_SourceReportsEnd ==
    (stopsDone > 0 /\ ~rxAlive) => ret = RetNone

(***************************************************************************)
(* C17 as amended: after stop has returned, from every state of the       *)
(* pipeline, the producer thread eventually ends and drops the sender and  *)
(* the source eventually either returns None or has been dropped by the    *)
(* stopped sink; nothing stays blocked.                                    *)
(***************************************************************************)
PipelineEnded ==
    /\ prodPc = "done"
    /\ ~txAlive
    /\ ret = RetNone \/ ~rxAlive

C17_ShutdownCompletes == (stopsDone > 0) ~> PipelineEnded

\* stop came with the sink paused; the producer left through a failed send
C17_Witness ==
    /\ stopsDone > 0
    /\ paused
    /\ prodExit = "send_err"
    /\ PipelineEnded

\* the states the claim names are among those stop starts from
C17_FullAndPaused ==
    /\ ctlPc["ui"] = "lock_sink"
    /\ paused
    /\ Len(chan) = ChannelDepth
    /\ prodPc = "send"

C17_EmptyAndReading ==
    /\ ctlPc["ui"] = "lock_sink"
    /\ chan = <<>>
    /\ prodPc = "read"
    /\ srcPc = "recv_timeout"

(***************************************************************************)
(* C18: every method of PlayerControl called from the input-handling      *)
(* thread returns, whatever the producer and the source are doing and even *)
(* if they never take another step; what a method inside a call waits for *)
(* is at most the hand-off thread's hold of the sink's lock, never a       *)
(* sample; and the thread never holds the sink's lock and the child's lock *)
(* together.                                                               *)
(***************************************************************************)
InCall == ctlPc["ui"] # "idle"

C18_ControlReturns ==
    /\ [](~(sinkLock = "ui" /\ childLock = "ui"))
    /\ [](InCall => (ENABLED CallerSteps \/ sinkLock = "handoff"))
    /\ InCall ~> ~InCall

\* stop is at the child's lock while the producer is blocked on a full
\* channel and the sink is paused
C18_Witness ==
    /\ ctlPc["ui"] = "lock_child"
    /\ Len(chan) = ChannelDepth
    /\ prodPc = "send"
    /\ paused

\* a method waits for the sink's lock while the hand-off thread appends
C18_WitnessHandoff ==
    /\ ctlPc["ui"] = "op_lock"
    /\ sinkLock = "handoff"

(***************************************************************************)
(* C19: in a record extract_song_info yields, artist is the string under  *)
(* key artist; title is the string under the first present of title, song, *)
(* track; art_url comes from the first present of artwork, artwork_url,    *)
(* art, cover, cover_url, image, album_art, made absolute: http:// and     *)
(* https:// values unchanged, //x prefixed with https:, /x prefixed with   *)
(* https://api.plaza.one, anything else appended to                        *)
(* https://api.plaza.one/.  A field is absent when its chosen key is       *)
(* missing or its value is not a string.                                   *)
(***************************************************************************)
TitleKeys == <<"title", "song", "track">>

ArtKeys == <<"artwork", "artwork_url", "art", "cover", "cover_url", "image", "album_art">>

HasKey(v, k) == v.t = "obj" /\ k \in DOMAIN v.v

\* the field's string: under the first key of keys that v has, if that
\* value is a string
FieldOf(v, keys) ==
    IF \E i \in 1..Len(keys) : HasKey(v, keys[i])
    THEN LET i == CHOOSE i \in 1..Len(keys) :
                       /\ HasKey(v, keys[i])
                       /\ \A j \in 1..(i - 1) : ~HasKey(v, keys[j])
             x == v.v[keys[i]]
         IN  IF x.t = "str" THEN <<x.v>> ELSE <<>>
    ELSE <<>>

MadeAbsolute(u) ==
    CASE IsAbsolute(u) -> u
      [] ~IsAbsolute(u) /\ StartsWith(u, <<"/", "/">>) -> <<"h", "t", "t", "p", "s", ":">> \o u
      [] ~StartsWith(u, <<"/", "/">>) /\ StartsWith(u, <<"/">>) -> ApiOrigin \o u
      [] OTHER -> ApiOrigin \o <<"/">> \o u

C19_FieldExtraction ==
    (parseFn = "extract_song_info" /\ Len(parseOut) > 0) =>
        /\ parseOut[1].artist = FieldOf(parseIn, <<"artist">>)
        /\ parseOut[1].title = FieldOf(parseIn, TitleKeys)
        /\ parseOut[1].art_url =
              IF Len(FieldOf(parseIn, ArtKeys)) > 0
              THEN <<MadeAbsolute(FieldOf(parseIn, ArtKeys)[1])>>
              ELSE <<>>

\* title is missing while song and track are both there, and art holds //c
\* ahead of cover: the record has title S and art https://c
C19_Witness ==
    /\ parseFn = "extract_song_info"
    /\ ~HasKey(parseIn, "title")
    /\ HasKey(parseIn, "track")
    /\ HasKey(parseIn, "cover")
    /\ Len(parseOut) > 0
    /\ parseOut[1].title = <<(<<"S">>)>>
    /\ parseOut[1].art_url = <<(<<"h", "t", "t", "p", "s", ":", "/", "/", "c">>)>>

\* the chosen key holds a number: the field is absent although a later key
\* holds a string
C19_WitnessNotString ==
    /\ parseFn = "extract_song_info"
    /\ HasKey(parseIn, "artwork")
    /\ parseIn.v["artwork"] = JNum
    /\ HasKey(parseIn, "cover")
    /\ Len(parseOut) > 0
    /\ parseOut[1].art_url = <<>>

(***************************************************************************)
(* C20: parse_possible_metadata tries three stages in order: the flat     *)
(* artist / title / artwork|image|art keys of the object itself; else the  *)
(* current sub-object (now_playing when current is absent); else the       *)
(* Icecast shape icestats.source.  A later stage is attempted whenever the *)
(* earlier ones yield no record: the result is the record of the first     *)
(* stage that yields one, so it is None only when no stage yields one; a   *)
(* value that is not an object gives None.                                 *)
(***************************************************************************)
FlatStage(v) ==
    LET artist == FieldOf(v, <<"artist">>)
        title == FieldOf(v, <<"title">>)
        image == FieldOf(v, <<"artwork", "image", "art">>)
    IN  IF Len(artist) > 0 \/ Len(title) > 0 \/ Len(image) > 0
        THEN <<[artist |-> artist, title |-> title, art_url |-> image]>>
        ELSE <<>>

SubObjectStage(v) ==
    IF HasKey(v, "current") THEN extract_song_info(v.v["current"])
    ELSE IF HasKey(v, "now_playing") THEN extract_song_info(v.v["now_playing"])
    ELSE <<>>

C20_StagesFallThrough ==
    parseFn = "parse_possible_metadata" =>
        IF parseIn.t # "obj" THEN parseOut = <<>>
        ELSE parseOut = OrElse(FlatStage(parseIn),
                               OrElse(SubObjectStage(parseIn), IcecastStage(parseIn)))

(***************************************************************************)
(* C21.  The source used is icestats.source itself when it is an object   *)
(* and its first element when it is an array; the title is the string     *)
(* under its key title.  A missing or non-string title (an empty array     *)
(* included) yields no record; a title without " - " becomes the title     *)
(* with artist absent; otherwise the title is split at the first " - ";    *)
(* art_url is absent in both cases.                                        *)
(***************************************************************************)
UsedSource(v) ==
    LET src == v.v["icestats"].v["source"]
    IN  IF src.t = "arr" THEN (IF Len(src.v) > 0 THEN <<src.v[1]>> ELSE <<>>)
        ELSE <<src>>

IceTitle(v) ==
    IF HasKey(v, "icestats") /\ HasKey(v.v["icestats"], "source")
           /\ Len(UsedSource(v)) > 0
    THEN FieldOf(UsedSource(v)[1], <<"title">>)
    ELSE <<>>

Occurs(t, i) == i >= 1 /\ i + 2 <= Len(t) /\ SubSeq(t, i, i + 2) = <<" ", "-", " ">>

HasSeparator(t) == \E i \in 1..Len(t) : Occurs(t, i)

FirstAt(t) == CHOOSE i \in 1..Len(t) : Occurs(t, i) /\ \A j \in 1..(i - 1) : ~Occurs(t, j)

Before(t) == SubSeq(t, 1, FirstAt(t) - 1)

After(t) == SubSeq(t, FirstAt(t) + 3, Len(t))

\* s without its leading and trailing white space
Stripped(s) ==
    LET ink == {i \in 1..Len(s) : s[i] \notin {" ", "\t", "\n"}}
    IN  IF ink = {} THEN <<>>
        ELSE SubSeq(s, CHOOSE i \in ink : \A j \in ink : i <= j,
                       CHOOSE i \in ink : \A j \in ink : i >= j)

\* C21 as claimed: artist is what stands before the first " - " and title
\* what stands after it
C21_IcecastSplit ==
    parseFn = "parse_possible_metadata" =>
        LET t == IceTitle(parseIn)
        IN  IF Len(t) = 0 THEN parseOut = <<>>
            ELSE IF HasSeparator(t[1])
            THEN parseOut = <<[artist |-> <<Before(t[1])>>, title |-> <<After(t[1])>>,
                               art_url |-> <<>>]>>
            ELSE parseOut = <<[artist |-> <<>>, title |-> t, art_url |-> <<>>]>>

\* C21 as amended: the same, with the two parts of a split title stripped
\* of leading and trailing white space (a title without the separator is
\* kept as it is)
C21_IcecastSplitTrimmed ==
    parseFn = "parse_possible_metadata" =>
        LET t == IceTitle(parseIn)
        IN  IF Len(t) = 0 THEN parseOut = <<>>
            ELSE IF HasSeparator(t[1])
            THEN parseOut = <<[artist |-> <<Stripped(Before(t[1]))>>,
                               title |-> <<Stripped(After(t[1]))>>,
                               art_url |-> <<>>]>>
            ELSE parseOut = <<[artist |-> <<>>, title |-> t, art_url |-> <<>>]>>

\* the first element of an array of two holds "A - B - C": artist A and
\* title "B - C"
C21_Witness ==
    /\ parseFn = "parse_possible_metadata"
    /\ parseIn.v["icestats"].t = "obj"
    /\ HasKey(parseIn.v["icestats"], "source")
    /\ parseIn.v["icestats"].v["source"].t = "arr"
    /\ Len(parseIn.v["icestats"].v["source"].v) = 2
    /\ parseOut = <<[artist |-> <<(<<"A">>)>>,
                     title |-> <<(<<"B", " ", "-", " ", "C">>)>>,
                     art_url |-> <<>>]>>

(***************************************************************************)
(* C22.  The producer thread ends exactly on a read of zero bytes, a read  *)
(* error, or a send that fails because the receiver is gone; a read of     *)
(* n > 0 bytes is followed by the send and a successful send by the next   *)
(* read.  The sender lives exactly as long as the thread, so once the      *)
(* thread has ended the source finds the channel disconnected as soon as   *)
(* it is empty.                                                            *)
(***************************************************************************)
ProducerStep == prodPc' # prodPc \/ pos' # pos \/ sent' # sent

ProducerEnds == prodPc # "done" /\ prodPc' = "done"

C22_ProducerTermination ==
    /\ [](txAlive <=> prodPc # "done")
    /\ [](prodPc = "done" <=> prodExit \in {"eof", "read_err", "send_err"})
    /\ [][ProducerEnds =>
              \/ prodPc = "read" /\ pos' = pos /\ prodExit' \in {"eof", "read_err"}
              \/ prodPc = "send" /\ ~rxAlive /\ sent' = sent /\ prodExit' = "send_err"]_vars
    /\ [][(ProducerStep /\ prodPc = "read" /\ pos' > pos) => prodPc' = "send"]_vars
    /\ [][(ProducerStep /\ prodPc = "send" /\ rxAlive) =>
              (prodPc' = "read" /\ chan' = Append(chan, samples))]_vars
    /\ [][(ProducerStep /\ prodPc = "send" /\ ~rxAlive) => ProducerEnds]_vars
    /\ [][prodPc = "done" => prodPc' = "done"]_vars
    /\ [][(srcPc \in {"try_recv", "recv_timeout"} /\ srcPc' # srcPc
                /\ ~txAlive /\ chan = <<>>) => ret' = RetNone]_vars

\* the thread has read and sent, and then ended on a send to a receiver
\* that was gone
C22_Witness ==
    /\ prodPc = "done"
    /\ prodExit = "send_err"
    /\ ~txAlive
    /\ ~rxAlive
    /\ Len(sent) >= 2

(***************************************************************************)
(* C23.  A mute press that follows a mute press, with no other key in      *)
(* between, leaves the sink's volume at its value before the first of the  *)
(* two; the snapshot is never 0; a mute press changes neither the paused   *)
(* flag nor the child process handle.                                      *)
(***************************************************************************)
C23_MuteTwiceRestores ==
    /\ [][(KeyMute /\ muteFrom # <<>>) => volume' = muteFrom[Len(muteFrom)]]_vars
    /\ [][KeyMute => (paused' = paused /\ child' = child /\ proc' = proc)]_vars
    /\ [](savedVolume # <<>> => savedVolume[1] > 0)

\* two presses in a row from a volume of 1.35: 0 after the first, 1.35
\* again after the second
C23_Witness ==
    /\ muteFrom = <<135, 0>>
    /\ volume = 135
    /\ savedVolume = <<135>>

\* two presses in a row from a volume of 0 with no snapshot: the default
\* 0.5 after the first, 0 again after the second
C23_WitnessFromZero ==
    /\ muteFrom = <<0, RestoreDefault>>
    /\ volume = 0

(***************************************************************************)
(* C24.  While the source lives, the ring buffer changes only by a pop at  *)
(* its front or, when it is empty, by taking exactly the chunk at the head *)
(* of the channel; it never                                                *)
(* holds more than one read's samples; no chunk, queued or in the          *)
(* producer's hands, is longer than that; the channel holds at most 10     *)
(* chunks; so the samples not yet delivered are at most those of 10 + 1    *)
(* + 1 chunks.                                                             *)
(***************************************************************************)
Undelivered == Len(Flatten(chan)) + Len(buffer) + Len(samples)

C24_BoundedBacklog ==
    /\ [](Len(buffer) <= ChunkCap)
    /\ [](Len(samples) <= ChunkCap /\ \A i \in 1..Len(chan) : Len(chan[i]) <= ChunkCap)
    /\ [](Len(chan) <= ChannelDepth)
    /\ [](Undelivered <= (ChannelDepth + 1 + 1) * ChunkCap)
    /\ [][(buffer' # buffer /\ rxAlive') =>
              \/ buffer # <<>> /\ buffer' = Tail(buffer) /\ chan' = chan
              \/ buffer = <<>> /\ chan # <<>> /\ buffer' = Head(chan)
                     /\ chan' = Tail(chan)]_vars

\* ten chunks queued, samples left in the ring buffer and the producer
\* waiting in send with a further chunk
C24_Witness ==
    /\ Len(chan) = ChannelDepth
    /\ buffer # <<>>
    /\ prodPc = "send"
    /\ samples # <<>>

\* the ring buffer holds a whole read's samples
C24_WitnessFullBuffer == Len(buffer) = ChunkCap /\ ChunkCap > 0

(***************************************************************************)
(* C25.  Whenever the producer is about to read, the samples it has sent   *)
(* are the little-endian 16-bit decoding of all the bytes it has read,     *)
(* taken as one block, whatever the lengths of the reads were.             *)
(***************************************************************************)
C25_SplitIndependent ==
    prodPc = "read" => sent = Decode(ReadBlock(0, pos), pos)

====
